---- MODULE Spec2Model ----
(***************************************************************************)
(* Model of backend/src/python/job_scraper.py: the JobSpy wrapper script.  *)
(* One run of the script is a linear control flow: module imports,         *)
(* argument parsing, one call of scrape_jobs, the per-row normalization    *)
(* loop, the write of the output file, and the error handler.              *)
(*                                                                         *)
(* Python values are tagged records:                                       *)
(*   [k |-> "none"]                 None                                   *)
(*   [k |-> "nan"]                  float('nan'), the pandas missing mark  *)
(*   [k |-> "inf"]                  float('inf')                           *)
(*   [k |-> "float", x |-> n]       a finite float                         *)
(*   [k |-> "int",   x |-> n]       an int                                 *)
(*   [k |-> "bool",  b |-> ...]     a bool                                 *)
(*   [k |-> "str", s |-> t, n |-> l] the prefix of length l of the text t  *)
(*   [k |-> "dict", d |-> ...]      a dict (the compensation sub-record)   *)
(***************************************************************************)
EXTENDS Integers, Sequences, FiniteSets, TLC

VARIABLES
    pc,          \* position of the run in the script
    argv,        \* the required flags present on the command line
    df,          \* jobs_df: [none |-> BOOLEAN, rows |-> sequence of rows]
    i,           \* index of the next row of jobs_df.iterrows()
    jobs_data,   \* the list built by the loop
    file,        \* the output path: [exists |-> BOOLEAN, content |-> chunks]
    file0,       \* the output path as the run found it
    k,           \* number of chunks json.dump has written to the open file
    raised,      \* an exception was raised inside main's try block
    uncaught,    \* an exception escaped the except block of main
    exit_status, \* the process exit status, -1 while the run is going
    events       \* what the run has done so far, in order

vars == <<pc, argv, df, i, jobs_data, file, file0, k, raised, uncaught,
          exit_status, events>>

(***************************************************************************)
(* Bounds of the model.                                                    *)
(***************************************************************************)
MaxRows == 2

(***************************************************************************)
(* Python values and the built-in conversions the script applies.          *)
(***************************************************************************)
PyNone == [k |-> "none"]

PyNaN == [k |-> "nan"]

PyInf == [k |-> "inf"]

PyFloat(x) == [k |-> "float", x |-> x]

PyInt(x) == [k |-> "int", x |-> x]

PyBool(b) == [k |-> "bool", b |-> b]

PyStr(s, n) == [k |-> "str", s |-> s, n |-> n]

PyDict(d) == [k |-> "dict", d |-> d]

RECURSIVE Digits(_)
Digits(x) == IF x < 10 THEN 1 ELSE 1 + Digits(x \div 10)

Min(a, b) == IF a <= b THEN a ELSE b

\* str(v)
Str(v) ==
    CASE v.k = "str"   -> v
      [] v.k = "nan"   -> PyStr("nan", 3)
      [] v.k = "none"  -> PyStr("None", 4)
      [] v.k = "inf"   -> PyStr("inf", 3)
      [] v.k = "bool"  -> IF v.b THEN PyStr("True", 4) ELSE PyStr("False", 5)
      [] v.k = "int"   -> PyStr(ToString(v.x), Digits(v.x))
      [] v.k = "float" -> PyStr(ToString(v.x) \o ".0", Digits(v.x) + 2)

\* bool(v)
Bool(v) ==
    CASE v.k = "str"   -> PyBool(v.n > 0)
      [] v.k = "nan"   -> PyBool(TRUE)
      [] v.k = "none"  -> PyBool(FALSE)
      [] v.k = "inf"   -> PyBool(TRUE)
      [] v.k = "bool"  -> v
      [] v.k = "int"   -> PyBool(v.x # 0)
      [] v.k = "float" -> PyBool(v.x # 0)

\* float(v) raises ValueError on text that is no number, TypeError on None
FloatRaises(v) == v.k \in {"str", "none"}

\* float(v), where it does not raise
Float(v) ==
    CASE v.k = "int"   -> PyFloat(v.x)
      [] v.k = "float" -> v
      [] v.k = "inf"   -> v
      [] v.k = "nan"   -> v
      [] v.k = "bool"  -> PyFloat(IF v.b THEN 1 ELSE 0)

\* s[:limit]
Slice(v, limit) == PyStr(v.s, Min(v.n, limit))

\* pd.notna(v)
NotNa(v) == v.k \notin {"nan", "none"}

\* row.get(c, default) of a pandas Series
Get(row, c, default) == IF c \in DOMAIN row THEN row[c] ELSE default

\* datetime.now().isoformat()
NowIso == PyStr("2026-11-03T12:00:00.000000", 26)

DescriptionLimit == 5000

(***************************************************************************)
(* The Record Normalizer: the body of the loop over jobs_df.iterrows().    *)
(***************************************************************************)
\* str(row.get(c, '')) if pd.notna(row.get(c)) else None
NullableStr(row, c) ==
    IF NotNa(Get(row, c, PyNone)) THEN Str(Get(row, c, PyStr("", 0)))
    ELSE PyNone

IsRemote(row) == Bool(Get(row, "is_remote", PyBool(FALSE)))

JobFields(row) ==
    [ title            |-> Str(Get(row, "title", PyStr("", 0))),
      company          |-> Str(Get(row, "company", PyStr("", 0))),
      company_url      |-> NullableStr(row, "company_url"),
      job_url          |-> Str(Get(row, "job_url", PyStr("", 0))),
      location         |-> Str(Get(row, "location", PyStr("", 0))),
      city             |-> NullableStr(row, "city"),
      state            |-> NullableStr(row, "state"),
      country          |-> NullableStr(row, "country"),
      is_remote        |-> IsRemote(row),
      job_type         |-> NullableStr(row, "job_type"),
      date_posted      |-> Str(Get(row, "date_posted", NowIso)),
      description      |-> Slice(Str(Get(row, "description", PyStr("", 0))),
                                 DescriptionLimit),
      site             |-> Str(Get(row, "site", PyStr("unknown", 7))),
      job_level        |-> NullableStr(row, "job_level"),
      company_industry |-> NullableStr(row, "company_industry"),
      salary_source    |-> NullableStr(row, "salary_source") ]

\* variant: the branch taken only when both amounts are present
HasCompensationBoth(row) ==
    NotNa(Get(row, "min_amount", PyNone)) /\ NotNa(Get(row, "max_amount", PyNone))

\* the condition of the "Handle compensation data" branch
HasCompensation(row) ==
    NotNa(Get(row, "min_amount", PyNone)) \/ NotNa(Get(row, "max_amount", PyNone))

\* float(row.get(c)) if pd.notna(row.get(c)) else None
Amount(row, c) ==
    IF NotNa(Get(row, c, PyNone)) THEN Float(Get(row, c, PyNone)) ELSE PyNone

\* str(row.get(c, default)) if pd.notna(row.get(c)) else default
StrOrDefault(row, c, default) ==
    IF NotNa(Get(row, c, PyNone)) THEN Str(Get(row, c, default)) ELSE default

Compensation(row) ==
    PyDict([ min_amount |-> Amount(row, "min_amount"),
             max_amount |-> Amount(row, "max_amount"),
             interval   |-> StrOrDefault(row, "interval", PyStr("yearly", 6)),
             currency   |-> StrOrDefault(row, "currency", PyStr("USD", 3)) ])

\* the loop body raises exactly when one of its float() calls does
NormalizeRaises(row) ==
    /\ HasCompensation(row)
    /\ \/ /\ NotNa(Get(row, "min_amount", PyNone))
          /\ FloatRaises(Get(row, "min_amount", PyNone))
       \/ /\ NotNa(Get(row, "max_amount", PyNone))
          /\ FloatRaises(Get(row, "max_amount", PyNone))

\* job_data as appended to jobs_data
NormalizeRow(row) ==
    IF HasCompensation(row)
    THEN JobFields(row) @@ ("compensation" :> Compensation(row))
    ELSE JobFields(row)

(***************************************************************************)
(* json.dump: the encoding of a value and the chunks written to the file.  *)
(* A float that is infinite or NaN is written as the bare word Infinity or *)
(* NaN (allow_nan is left at its default).                                 *)
(***************************************************************************)
RECURSIVE Encode(_)
Encode(v) ==
    CASE v.k = "none"  -> [j |-> "null"]
      [] v.k = "bool"  -> [j |-> IF v.b THEN "true" ELSE "false"]
      [] v.k = "str"   -> [j |-> "string", s |-> v.s, n |-> v.n]
      [] v.k = "int"   -> [j |-> "number", x |-> v.x, point |-> FALSE]
      [] v.k = "float" -> [j |-> "number", x |-> v.x, point |-> TRUE]
      [] v.k = "inf"   -> [j |-> "Infinity"]
      [] v.k = "nan"   -> [j |-> "NaN"]
      [] v.k = "dict"  -> [j |-> "object",
                           o |-> [key \in DOMAIN v.d |-> Encode(v.d[key])]]

\* the text of one element of jobs_data
EncodeJob(job) == Encode(PyDict(job))

\* the chunks json.dump(list, f) writes, in order: "[]" for the empty list,
\* else the opening bracket, one chunk per element, the closing bracket
Chunks(list) ==
    IF list = <<>> THEN << [t |-> "empty"] >>
    ELSE << [t |-> "lb"] >>
         \o [n \in 1..Len(list) |-> [t |-> "item", v |-> EncodeJob(list[n])]]
         \o << [t |-> "rb"] >>

\* open(path, 'w') that succeeds: the file exists and is empty
Truncated == [exists |-> TRUE, content |-> <<>>]

(***************************************************************************)
(* Exit statuses.                                                          *)
(***************************************************************************)
ExitSuccess == 0

ExitFailure == 1

ExitUsage == 2

ExitTraceback == 1

\* variant: --output not marked required
RequiredArgsWithoutOutput == {"query", "location", "sites"}

RequiredArgs == {"query", "location", "sites", "output"}

(***************************************************************************)
(* Inputs of a run: the rows the collaborator may return.                  *)
(***************************************************************************)
Absent == [k |-> "absent"]

\* a pandas Series with the columns that f does not mark Absent
MkRow(f) == [c \in {c \in DOMAIN f : f[c] # Absent} |-> f[c]]

\* the scenario row of the specification
ScenarioRow ==
    [ title      |-> PyStr("Engineer", 8),
      company    |-> PyStr("Acme", 4),
      min_amount |-> PyInt(80000),
      max_amount |-> PyInt(120000) ]

\* a row with every column filled and no salary
FullRow ==
    [ title            |-> PyStr("Nurse", 5),
      company          |-> PyStr("Care", 4),
      company_url      |-> PyStr("https://care.example", 20),
      job_url          |-> PyStr("https://jobs.example/1", 22),
      location         |-> PyStr("Wien, AT", 8),
      city             |-> PyStr("Wien", 4),
      state            |-> PyNaN,
      country          |-> PyStr("AT", 2),
      is_remote        |-> PyBool(TRUE),
      job_type         |-> PyStr("fulltime", 8),
      date_posted      |-> PyStr("2026-10-30", 10),
      description      |-> PyStr("lorem ipsum", 6000),
      site             |-> PyStr("indeed", 6),
      job_level        |-> PyNone,
      company_industry |-> PyStr("Health", 6),
      salary_source    |-> PyNaN,
      min_amount       |-> PyNaN,
      max_amount       |-> PyNaN,
      interval         |-> PyNaN,
      currency         |-> PyNaN ]

\* a row whose salary cell is text that float() rejects
TextSalaryRow ==
    [ title      |-> PyStr("Cook", 4),
      min_amount |-> PyStr("negotiable", 10),
      currency   |-> PyStr("EUR", 3) ]

\* a row with an unbounded upper salary
OpenEndedRow ==
    [ title      |-> PyStr("Broker", 6),
      is_remote  |-> PyBool(FALSE),
      min_amount |-> PyFloat(50000),
      max_amount |-> PyInf,
      interval   |-> PyStr("monthly", 7) ]

\* a row with missing cells in the required columns
SparseRow ==
    [ title       |-> PyNaN,
      company     |-> PyNone,
      is_remote   |-> PyNaN,
      description |-> PyNaN ]

Rows == {ScenarioRow, FullRow, TextSalaryRow, OpenEndedRow, SparseRow}

RECURSIVE SeqsUpTo(_, _)
SeqsUpTo(S, n) ==
    IF n = 0 THEN {<<>>}
    ELSE LET shorter == SeqsUpTo(S, n - 1)
         IN  shorter \cup {Append(q, r) : q \in {q \in shorter : Len(q) = n - 1},
                                          r \in S}

\* what scrape_jobs may return: None, or a DataFrame of 0..MaxRows rows
ScrapeResults ==
    {[none |-> TRUE, rows |-> <<>>]}
    \cup {[none |-> FALSE, rows |-> q] : q \in SeqsUpTo(Rows, MaxRows)}

(***************************************************************************)
(* The run.                                                                *)
(***************************************************************************)
NoFile == [exists |-> FALSE, content |-> <<>>]

\* a file left at the output path by an earlier run or another program
StaleFile == [exists |-> TRUE, content |-> << [t |-> "stale"] >>]

NoFrame == [none |-> TRUE, rows |-> <<>>]

Init ==
    /\ pc = "import_jobspy"
    /\ argv \in SUBSET RequiredArgs
    /\ df = NoFrame
    /\ i = 1
    /\ jobs_data = <<>>
    /\ file0 \in {NoFile, StaleFile}
    /\ file = file0
    /\ k = 0
    /\ raised = FALSE
    /\ uncaught = FALSE
    /\ exit_status = -1
    /\ events = <<>>

\* sys.exit(status), or the interpreter ending the process
Exit(status) ==
    /\ pc' = "exited"
    /\ exit_status' = status

\* from JobSpy import scrape_jobs
ImportJobSpyOK ==
    /\ pc = "import_jobspy"
    /\ pc' = "import_pandas"
    /\ UNCHANGED <<argv, df, i, jobs_data, file, file0, k, raised, uncaught,
                   exit_status, events>>

\* except ImportError: print(...); sys.exit(1)
ImportJobSpyFail ==
    /\ pc = "import_jobspy"
    /\ events' = Append(events, "stderr:jobspy_missing")
    /\ Exit(ExitFailure)
    /\ UNCHANGED <<argv, df, i, jobs_data, file, file0, k, raised, uncaught>>

\* import pandas as pd
ImportPandasOK ==
    /\ pc = "import_pandas"
    /\ pc' = "parse"
    /\ UNCHANGED <<argv, df, i, jobs_data, file, file0, k, raised, uncaught,
                   exit_status, events>>

\* variant: the import failure writes the empty array like a runtime failure
ImportPandasFailWritesEmpty ==
    /\ pc = "import_pandas"
    /\ events' = events \o <<"stderr:libraries_missing", "open", "write">>
    /\ file' = [exists |-> TRUE, content |-> Chunks(<<>>)]
    /\ Exit(ExitFailure)
    /\ UNCHANGED <<argv, df, i, jobs_data, file0, k, raised, uncaught>>

\* except ImportError: print(...); sys.exit(1)
ImportPandasFail ==
    /\ pc = "import_pandas"
    /\ events' = Append(events, "stderr:libraries_missing")
    /\ Exit(ExitFailure)
    /\ UNCHANGED <<argv, df, i, jobs_data, file, file0, k, raised, uncaught>>

\* args = parser.parse_args(), every required flag present
ParseOK ==
    /\ pc = "parse"
    /\ RequiredArgs \subseteq argv
    /\ pc' = "scrape"
    /\ UNCHANGED <<argv, df, i, jobs_data, file, file0, k, raised, uncaught,
                   exit_status, events>>

\* args = parser.parse_args(), a required flag missing: usage error, exit
ParseError ==
    /\ pc = "parse"
    /\ ~ (RequiredArgs \subseteq argv)
    /\ events' = Append(events, "stderr:usage")
    /\ Exit(ExitUsage)
    /\ UNCHANGED <<argv, df, i, jobs_data, file, file0, k, raised, uncaught>>

\* print("Starting job scrape"); jobs_df = scrape_jobs(...) returns
ScrapeReturns ==
    /\ pc = "scrape"
    /\ \E result \in ScrapeResults : df' = result
    /\ events' = events \o <<"stderr:starting", "scrape">>
    /\ pc' = "branch"
    /\ UNCHANGED <<argv, i, jobs_data, file, file0, k, raised, uncaught,
                   exit_status>>

\* variant: a failed scrape is tried again
ScrapeRaisesRetries ==
    /\ pc = "scrape"
    /\ events' = events \o <<"stderr:starting", "scrape">>
    /\ raised' = TRUE
    /\ pc' = "scrape"
    /\ UNCHANGED <<argv, df, i, jobs_data, file, file0, k, uncaught,
                   exit_status>>

\* print("Starting job scrape"); jobs_df = scrape_jobs(...) raises
ScrapeRaises ==
    /\ pc = "scrape"
    /\ events' = events \o <<"stderr:starting", "scrape">>
    /\ raised' = TRUE
    /\ pc' = "handler"
    /\ UNCHANGED <<argv, df, i, jobs_data, file, file0, k, uncaught,
                   exit_status>>

\* if jobs_df is not None and not jobs_df.empty: jobs_data = []
BranchRows ==
    /\ pc = "branch"
    /\ ~ df.none /\ df.rows # <<>>
    /\ jobs_data' = <<>>
    /\ i' = 1
    /\ pc' = "loop"
    /\ UNCHANGED <<argv, df, file, file0, k, raised, uncaught, exit_status,
                   events>>

\* else: print("No jobs found")
BranchEmpty ==
    /\ pc = "branch"
    /\ df.none \/ df.rows = <<>>
    /\ events' = Append(events, "stderr:no_jobs")
    /\ pc' = "open_empty"
    /\ UNCHANGED <<argv, df, i, jobs_data, file, file0, k, raised, uncaught,
                   exit_status>>

\* variant: the list is created anew in every pass of the loop
NormalizeOKResetsList ==
    /\ pc = "loop"
    /\ i <= Len(df.rows)
    /\ ~ NormalizeRaises(df.rows[i])
    /\ jobs_data' = << NormalizeRow(df.rows[i]) >>
    /\ i' = i + 1
    /\ events' = Append(events, "normalize")
    /\ UNCHANGED <<pc, argv, df, file, file0, k, raised, uncaught,
                   exit_status>>

\* one pass of the loop body: job_data = {...}; jobs_data.append(job_data)
NormalizeOK ==
    /\ pc = "loop"
    /\ i <= Len(df.rows)
    /\ ~ NormalizeRaises(df.rows[i])
    /\ jobs_data' = Append(jobs_data, NormalizeRow(df.rows[i]))
    /\ i' = i + 1
    /\ events' = Append(events, "normalize")
    /\ UNCHANGED <<pc, argv, df, file, file0, k, raised, uncaught,
                   exit_status>>

\* one pass of the loop body in which float() raises
NormalizeFail ==
    /\ pc = "loop"
    /\ i <= Len(df.rows)
    /\ NormalizeRaises(df.rows[i])
    /\ events' = Append(events, "normalize")
    /\ raised' = TRUE
    /\ pc' = "handler"
    /\ UNCHANGED <<argv, df, i, jobs_data, file, file0, k, uncaught,
                   exit_status>>

\* iterrows() is exhausted
LoopDone ==
    /\ pc = "loop"
    /\ i > Len(df.rows)
    /\ pc' = "open_out"
    /\ UNCHANGED <<argv, df, i, jobs_data, file, file0, k, raised, uncaught,
                   exit_status, events>>

\* open(args.output, 'w') on one of the two normal paths
OpenOK ==
    /\ pc \in {"open_out", "open_empty"}
    /\ file' = Truncated
    /\ k' = 0
    /\ events' = Append(events, "open")
    /\ pc' = IF pc = "open_out" THEN "dump" ELSE "dump_empty"
    /\ UNCHANGED <<argv, df, i, jobs_data, file0, raised, uncaught,
                   exit_status>>

\* open(args.output, 'w') raises OSError: the path is left as it was
OpenFail ==
    /\ pc \in {"open_out", "open_empty"}
    /\ events' = Append(events, "open")
    /\ raised' = TRUE
    /\ pc' = "handler"
    /\ UNCHANGED <<argv, df, i, jobs_data, file, file0, k, uncaught,
                   exit_status>>

\* the list a normal path hands to json.dump
Dumped == IF pc = "dump" THEN jobs_data ELSE <<>>

\* json.dump writes its next chunk
WriteChunk ==
    /\ pc \in {"dump", "dump_empty"}
    /\ k < Len(Chunks(Dumped))
    /\ file' = [file EXCEPT !.content = Append(@, Chunks(Dumped)[k + 1])]
    /\ k' = k + 1
    /\ events' = Append(events, "write")
    /\ UNCHANGED <<pc, argv, df, i, jobs_data, file0, raised, uncaught,
                   exit_status>>

\* the write of the next chunk raises; the with statement closes the file
WriteFail ==
    /\ pc \in {"dump", "dump_empty"}
    /\ k < Len(Chunks(Dumped))
    /\ events' = Append(events, "write")
    /\ raised' = TRUE
    /\ pc' = "handler"
    /\ UNCHANGED <<argv, df, i, jobs_data, file, file0, k, uncaught,
                   exit_status>>

\* json.dump has returned, the file is closed, main returns (after the
\* "Successfully scraped" message on the path with rows)
Finish ==
    /\ pc \in {"dump", "dump_empty"}
    /\ k = Len(Chunks(Dumped))
    /\ events' = IF pc = "dump" THEN Append(events, "stderr:success")
                  ELSE events
    /\ Exit(ExitSuccess)
    /\ UNCHANGED <<argv, df, i, jobs_data, file, file0, k, raised, uncaught>>

\* variant: the handler opens the file for appending
HandlerOpenAppends ==
    /\ pc = "handler"
    /\ file' = [exists |-> TRUE, content |-> file.content]
    /\ events' = events \o <<"stderr:error", "open">>
    /\ pc' = "handler_dump"
    /\ UNCHANGED <<argv, df, i, jobs_data, file0, k, raised, uncaught,
                   exit_status>>

\* except Exception: print(...); open(args.output, 'w')
HandlerOpenOK ==
    /\ pc = "handler"
    /\ file' = Truncated
    /\ events' = events \o <<"stderr:error", "open">>
    /\ pc' = "handler_dump"
    /\ UNCHANGED <<argv, df, i, jobs_data, file0, k, raised, uncaught,
                   exit_status>>

\* the handler's open raises: the exception leaves main, the process dies
HandlerOpenFail ==
    /\ pc = "handler"
    /\ events' = events \o <<"stderr:error", "open">>
    /\ uncaught' = TRUE
    /\ Exit(ExitTraceback)
    /\ UNCHANGED <<argv, df, i, jobs_data, file, file0, k, raised>>

\* variant: the handler returns instead of calling sys.exit(1)
HandlerWriteReturns ==
    /\ pc = "handler_dump"
    /\ file' = [file EXCEPT !.content = Append(@, Chunks(<<>>)[1])]
    /\ events' = Append(events, "write")
    /\ Exit(ExitSuccess)
    /\ UNCHANGED <<argv, df, i, jobs_data, file0, k, raised, uncaught>>

\* json.dump([], f); sys.exit(1)
HandlerWriteOK ==
    /\ pc = "handler_dump"
    /\ file' = [file EXCEPT !.content = Append(@, Chunks(<<>>)[1])]
    /\ events' = Append(events, "write")
    /\ Exit(ExitFailure)
    /\ UNCHANGED <<argv, df, i, jobs_data, file0, k, raised, uncaught>>

\* the handler's write raises: the exception leaves main, the process dies
HandlerWriteFail ==
    /\ pc = "handler_dump"
    /\ events' = Append(events, "write")
    /\ uncaught' = TRUE
    /\ Exit(ExitTraceback)
    /\ UNCHANGED <<argv, df, i, jobs_data, file, file0, k, raised>>

Next ==
    \/ ImportJobSpyOK
    \/ ImportJobSpyFail
    \/ ImportPandasOK
    \/ ImportPandasFail
    \/ ParseOK
    \/ ParseError
    \/ ScrapeReturns
    \/ ScrapeRaises
    \/ BranchRows
    \/ BranchEmpty
    \/ NormalizeOK
    \/ NormalizeFail
    \/ LoopDone
    \/ OpenOK
    \/ OpenFail
    \/ WriteChunk
    \/ WriteFail
    \/ Finish
    \/ HandlerOpenOK
    \/ HandlerOpenFail
    \/ HandlerWriteOK
    \/ HandlerWriteFail

Spec == Init /\ [][Next]_vars

(***************************************************************************)
(* The Record Normalizer on its own: one row, taken from a wide set of     *)
(* rows, goes through one pass of the loop body.                           *)
(***************************************************************************)
AmountCells ==
    {Absent, PyNaN, PyNone, PyInt(80000), PyFloat(120000), PyInf,
     PyStr("negotiable", 10)}

LabelCells(s, n) == {Absent, PyNaN, PyNone, PyStr(s, n)}

\* rows that differ in the four salary columns
SalaryRows ==
    { MkRow([ title      |-> PyStr("Engineer", 8),
              company    |-> PyStr("Acme", 4),
              min_amount |-> a,
              max_amount |-> b,
              interval   |-> c,
              currency   |-> d ]) :
        a \in AmountCells, b \in AmountCells,
        c \in LabelCells("hourly", 6), d \in LabelCells("EUR", 3) }

StringColumns ==
    {"title", "company", "company_url", "job_url", "location", "city",
     "state", "country", "job_type", "date_posted", "description", "site",
     "job_level", "company_industry", "salary_source"}

\* FullRow with one string column replaced
TextRows ==
    { MkRow([c \in DOMAIN FullRow |-> IF c = col THEN cell ELSE FullRow[c]]) :
        col \in StringColumns,
        cell \in {Absent, PyNaN, PyNone, PyStr("", 0), PyStr("x", 7000),
                  PyInt(42)} }

\* FullRow with the is_remote cell replaced
RemoteRows ==
    { MkRow([FullRow EXCEPT !.is_remote = cell]) :
        cell \in {Absent, PyNaN, PyNone, PyBool(TRUE), PyBool(FALSE),
                  PyInt(0), PyInt(1), PyStr("", 0), PyStr("yes", 3)} }

RowInputs == SalaryRows \cup TextRows \cup RemoteRows \cup Rows

\* the run at the head of the loop, the collaborator having returned one row
InitRow ==
    /\ pc = "loop"
    /\ argv = RequiredArgs
    /\ \E row \in RowInputs : df = [none |-> FALSE, rows |-> << row >>]
    /\ i = 1
    /\ jobs_data = <<>>
    /\ file0 = NoFile
    /\ file = file0
    /\ k = 0
    /\ raised = FALSE
    /\ uncaught = FALSE
    /\ exit_status = -1
    /\ events = <<"stderr:starting", "scrape">>

NextRow ==
    \/ NormalizeOK
    \/ NormalizeFail

SpecRow == InitRow /\ [][NextRow]_vars

(***************************************************************************)
(* Vocabulary of the properties.                                           *)
(***************************************************************************)
Exited == pc = "exited"

Ran(e) == \E n \in DOMAIN events : events[n] = e

Count(e) == Cardinality({n \in DOMAIN events : events[n] = e})

\* the run got past the imports and the argument parsing
EnteredTry == Ran("stderr:starting")

ImportFailed == Ran("stderr:jobspy_missing") \/ Ran("stderr:libraries_missing")

\* the file holds exactly the two characters []
HoldsEmptyArray == file = [exists |-> TRUE, content |-> << [t |-> "empty"] >>]

RECURSIVE IsJSONValue(_)
IsJSONValue(v) ==
    \/ v.j \in {"null", "true", "false", "string", "number"}
    \/ /\ v.j = "object"
       /\ \A key \in DOMAIN v.o : IsJSONValue(v.o[key])

\* the chunks form one syntactically valid JSON array
IsJSONArray(content) ==
    \/ content = << [t |-> "empty"] >>
    \/ /\ Len(content) >= 2
       /\ content[1] = [t |-> "lb"]
       /\ content[Len(content)] = [t |-> "rb"]
       /\ \A n \in 2..(Len(content) - 1) :
            content[n].t = "item" /\ IsJSONValue(content[n].v)

\* the cell of column c is missing: no such column, or a missing-value mark
Missing(row, c) == c \notin DOMAIN row \/ row[c] \in {PyNaN, PyNone}

(***************************************************************************)
(* C1.  Every run that entered main's try block ends with the output file  *)
(* present and holding a syntactically valid JSON array.                   *)
(* Stated as claimed; the script violates it.                              *)
(***************************************************************************)
C1_ValidArrayAtExit ==
    (Exited /\ EnteredTry) => (file.exists /\ IsJSONArray(file.content))

C4_ImportFailureTouchesNothing ==
    ImportFailed =>
        /\ Exited /\ exit_status = 1
        /\ ~ Ran("scrape") /\ ~ Ran("open") /\ ~ Ran("write")
        /\ file = file0

C4_Witness ==
    /\ Ran("stderr:libraries_missing")
    /\ Exited /\ exit_status = 1
    /\ file = StaleFile

C6_OneListingPerRowInOrder ==
    (Exited /\ EnteredTry /\ ~ raised /\ ~ df.none /\ Len(df.rows) >= 1) =>
        /\ file.exists
        /\ Len(file.content) = Len(df.rows) + 2
        /\ file.content[1] = [t |-> "lb"]
        /\ file.content[Len(df.rows) + 2] = [t |-> "rb"]
        /\ \A m \in 1..Len(df.rows) :
             file.content[m + 1] =
                 [t |-> "item", v |-> EncodeJob(NormalizeRow(df.rows[m]))]

C6_Witness ==
    /\ Exited /\ ~ raised /\ exit_status = 0
    /\ ~ df.none /\ Len(df.rows) = 2 /\ df.rows[1] # df.rows[2]
    /\ Len(file.content) = 4

(***************************************************************************)
(* C7.  The compensation entry of every listing: absent when min_amount    *)
(* and max_amount are both missing; else present, each amount the row's    *)
(* value as a float or None when missing, interval and currency the row's  *)
(* value or "yearly" and "USD" when missing.                               *)
(***************************************************************************)
C7_AsFloat(v) == IF v.k = "int" THEN [k |-> "float", x |-> v.x] ELSE v

C7_Reference(row, job) ==
    IF Missing(row, "min_amount") /\ Missing(row, "max_amount")
    THEN "compensation" \notin DOMAIN job
    ELSE /\ "compensation" \in DOMAIN job
         /\ job["compensation"].k = "dict"
         /\ DOMAIN job["compensation"].d =
                {"min_amount", "max_amount", "interval", "currency"}
         /\ job["compensation"].d.min_amount =
                IF Missing(row, "min_amount") THEN [k |-> "none"]
                ELSE C7_AsFloat(row["min_amount"])
         /\ job["compensation"].d.max_amount =
                IF Missing(row, "max_amount") THEN [k |-> "none"]
                ELSE C7_AsFloat(row["max_amount"])
         /\ job["compensation"].d.interval =
                IF Missing(row, "interval")
                THEN [k |-> "str", s |-> "yearly", n |-> 6]
                ELSE row["interval"]
         /\ job["compensation"].d.currency =
                IF Missing(row, "currency")
                THEN [k |-> "str", s |-> "USD", n |-> 3]
                ELSE row["currency"]

C7_CompensationMatchesReference ==
    \A m \in DOMAIN jobs_data : C7_Reference(df.rows[m], jobs_data[m])

\* a listing built from a row with only one amount and no interval
C7_Witness ==
    /\ Len(jobs_data) = 1
    /\ Missing(df.rows[1], "min_amount")
    /\ ~ Missing(df.rows[1], "max_amount")
    /\ Missing(df.rows[1], "interval")
    /\ ~ Missing(df.rows[1], "currency")
    /\ "compensation" \in DOMAIN jobs_data[1]

(***************************************************************************)
(* C8.  For a missing string cell the listing never carries the text of    *)
(* the missing mark: a nullable field is None, a non-nullable field is the *)
(* empty string or its default.  Stated as claimed; the script violates it.*)
(***************************************************************************)
C8_Default(c) ==
    CASE c = "site"        -> [k |-> "str", s |-> "unknown", n |-> 7]
      [] c = "date_posted" -> NowIso
      [] OTHER             -> [k |-> "str", s |-> "", n |-> 0]

C8_NonNullable ==
    {"title", "company", "job_url", "location", "description", "site",
     "date_posted"}

C8_MissingNeverStringified ==
    \A m \in DOMAIN jobs_data : \A c \in StringColumns :
        Missing(df.rows[m], c) =>
            /\ jobs_data[m][c] \notin {[k |-> "str", s |-> "nan", n |-> 3],
                                       [k |-> "str", s |-> "None", n |-> 4]}
            /\ jobs_data[m][c] =
                   IF c \in C8_NonNullable THEN C8_Default(c)
                   ELSE [k |-> "none"]

(***************************************************************************)
(* C9.  is_remote of every listing is a bool, False whenever the row has   *)
(* no is_remote value (column absent or missing mark), and True only for a *)
(* present, truthy cell.  Stated as claimed; the script violates it.       *)
(***************************************************************************)
C9_Truthy(v) ==
    CASE v.k = "bool" -> v.b
      [] v.k = "int"  -> v.x # 0
      [] v.k = "str"  -> v.n > 0
      [] OTHER        -> TRUE

C9_IsRemoteFalseWhenMissing ==
    \A m \in DOMAIN jobs_data :
        /\ jobs_data[m].is_remote.k = "bool"
        /\ Missing(df.rows[m], "is_remote") => ~ jobs_data[m].is_remote.b
        /\ jobs_data[m].is_remote.b =>
               /\ ~ Missing(df.rows[m], "is_remote")
               /\ C9_Truthy(df.rows[m]["is_remote"])

(***************************************************************************)
(* C10.  scrape_jobs is called at most once in a run, and every            *)
(* normalization step and every open or write of the output file comes     *)
(* after that call.                                                        *)
(***************************************************************************)
C10_ScrapeOnceAndFirst ==
    /\ Count("scrape") <= 1
    /\ \A n \in DOMAIN events :
         events[n] \in {"normalize", "open", "write"} =>
             \E m \in 1..(n - 1) : events[m] = "scrape"

\* the call raised and the handler ran to its end without a second call
C10_Witness ==
    /\ Exited /\ raised /\ df = NoFrame
    /\ Count("scrape") = 1
    /\ Ran("open") /\ Ran("write")

====
